---- MODULE Spec2Model ----
(***************************************************************************)
(* Model of the ExcelTranslator component                                  *)
(* (src/src/components/ExcelTranslator.tsx).                               *)
(*                                                                         *)
(* The component state (loading, data, error, originalFileName, progress)  *)
(* is shared; every invocation of the async handler handleFileUpload has   *)
(* its own locals and its own position, kept in one slot of `run`.         *)
(* JavaScript runs a handler without interruption between two awaits, so   *)
(* one action models the code from one await to the next: the awaits are   *)
(* file.arrayBuffer() (line 112), axios.post (line 46) and delay (line 89).*)
(*                                                                         *)
(* Values: a cell of column zero is a natural number, 0 standing for every *)
(* falsy cell (absent, empty) and c > 0 for the c-th distinct text.        *)
(* A message is a sequence of words, so that String.includes is a search   *)
(* for a word. progress is a rational number <<numerator, denominator>>.   *)
(***************************************************************************)
EXTENDS Integers, Sequences, FiniteSets, TLC

VARIABLES loading, data, error, originalFileName, progress, run

vars == <<loading, data, error, originalFileName, progress, run>>

-----------------------------------------------------------------------------
(* Bounds of the model *)

MaxRows == 25

MaxBlank == 2

MaxFaults == 2

MaxRuns == 2

\* rows of a sheet in the specification with fairness
LiveRows == 12

-----------------------------------------------------------------------------
(* Program constants *)

RATE_LIMIT_DELAY == 1000

BATCH_SIZE == 10

DEBUG_TRANSLATED_PERSIAN == "DEBUG_TRANSLATED_PERSIAN"

QuotaMessage == <<"API", "quota", "exceeded.", "Please", "try", "again", "later">>

InvalidKeyMessage == <<"Invalid", "API", "key.">>

InvalidFormatMessage == <<"Invalid", "response", "format", "from", "API">>

UnexpectedMessage == <<"An", "unexpected", "error", "occurred", "during", "translation">>

FileErrorMessage == <<"Error", "processing", "file.">>

ExportErrorMessage == <<"Error", "exporting", "file.">>

-----------------------------------------------------------------------------
(* Helpers *)

Min(a, b) == IF a <= b THEN a ELSE b

Slots == 1 .. MaxRuns

\* String.prototype.includes, on a message that is a sequence of words
Includes(message, word) == \E k \in 1 .. Len(message) : message[k] = word

\* Array.prototype.slice(from, to), from and to 0-based, to exclusive
Slice(seq, from, to) == SubSeq(seq, from + 1, Min(to, Len(seq)))

FilterTruthyKeepsAll(rows) == rows

\* Array.prototype.filter(row => row[0]).map(row => row[0]) of line 117
RECURSIVE FilterTruthy(_)
FilterTruthy(rows) ==
  IF rows = <<>> THEN <<>>
  ELSE IF Head(rows) # 0 THEN <<Head(rows)>> \o FilterTruthy(Tail(rows))
       ELSE FilterTruthy(Tail(rows))

\* comparison of two rationals <<n, d>>, d > 0
RatLeq(p, q) == p[1] * q[2] <= q[1] * p[2]

RatEq(p, q) == p[1] * q[2] = q[1] * p[2]

-----------------------------------------------------------------------------
(* Inputs: the uploaded file and the answer of the remote endpoint *)

\* event.target.files of line 102: no file, or one file with its name
FileLists == { <<>>, <<[name |-> "book.xlsx"]>> }

\* column zero of a sheet with c texts and k falsy cells: the falsy cells
\* come first, each followed by a text while there are texts left
Rows(c, k) ==
  LET m == Min(c, k)
  IN [r \in 1 .. (c + k) |->
        IF r <= 2 * m THEN (IF r % 2 = 1 THEN 0 ELSE r \div 2)
        ELSE IF c > m THEN r - m
        ELSE 0]

\* what lines 112-115 make of the file: an exception (the file cannot be
\* read or is not a workbook) or column zero of the rows of the first sheet
Parsed ==
  { [readable |-> TRUE, rows |-> Rows(c, k)] :
      c \in 0 .. MaxRows, k \in 0 .. MaxBlank }
  \cup { [readable |-> FALSE, rows |-> <<>>] }

\* what the awaited axios.post of lines 46-60 produces: a response whose
\* text field is absent (<<>>) or present (<<t>>), or an AxiosError with the
\* HTTP status (0: no response), the message of the response body and its own
Outcomes ==
  { [type |-> "response", text |-> t, status |-> 200,
     serverMessage |-> <<>>, message |-> <<>>] :
      t \in {<<>>, <<"">>, <<"tr">>} }
  \cup
  { [type |-> "axiosError", text |-> <<>>, status |-> 429,
     serverMessage |-> <<"Resource", "exhausted">>,
     message |-> <<"Request", "failed", "with", "status", "code", "429">>],
    [type |-> "axiosError", text |-> <<>>, status |-> 403,
     serverMessage |-> <<"You", "exceeded", "your", "quota">>,
     message |-> <<"Request", "failed", "with", "status", "code", "403">>],
    [type |-> "axiosError", text |-> <<>>, status |-> 403,
     serverMessage |-> <<"Quota", "exceeded">>,
     message |-> <<"Request", "failed", "with", "status", "code", "403">>],
    [type |-> "axiosError", text |-> <<>>, status |-> 401,
     serverMessage |-> <<"API", "key", "not", "valid">>,
     message |-> <<"Request", "failed", "with", "status", "code", "401">>],
    [type |-> "axiosError", text |-> <<>>, status |-> 500,
     serverMessage |-> <<>>,
     message |-> <<"Request", "failed", "with", "status", "code", "500">>],
    [type |-> "axiosError", text |-> <<>>, status |-> 0,
     serverMessage |-> <<>>,
     message |-> <<"Network", "Error">> ] }

-----------------------------------------------------------------------------
(* translateText, lines 43-81 *)

Return(t) == [threw |-> FALSE, text |-> t, message |-> <<>>]

Throw(m) == [threw |-> TRUE, text |-> "", message |-> m]

\* the truthiness test of line 62
HasText(outcome) == outcome.text # <<>> /\ outcome.text[1] # ""

\* the catch block of lines 68-80; isAxios is axios.isAxiosError(error)
translateTextCatch(isAxios, outcome) ==
  IF isAxios
  THEN IF outcome.status = 429 \/ Includes(outcome.serverMessage, "quota")
       THEN Throw(QuotaMessage)
       ELSE IF outcome.status = 401
            THEN Throw(InvalidKeyMessage)
            ELSE Throw(IF outcome.serverMessage # <<>>
                       THEN outcome.serverMessage ELSE outcome.message)
  ELSE Throw(UnexpectedMessage)

\* the Error of line 66 is thrown inside the try block, so the catch block
\* replaces it by the Error of line 79
translateText(outcome) ==
  IF outcome.type = "response"
  THEN IF HasText(outcome)
       THEN Return(outcome.text[1])
       ELSE translateTextCatch(FALSE, outcome)
  ELSE translateTextCatch(TRUE, outcome)

\* error instanceof Error && error.message.includes('quota'), lines 91, 135
IsQuotaError(result) == result.threw /\ Includes(result.message, "quota")

-----------------------------------------------------------------------------
(* State of one invocation of handleFileUpload *)

\* pc: "idle" (never invoked), "reading" (line 112), "awaitPost" (line 46),
\* "awaitDelay" (line 89), "done" (returned). calls, answers and checkpoints
\* record what the invocation did: the requests it issued, what the endpoint
\* answered to each, and the (progress, data) pairs of lines 132-133.
\* faults counts the answers that are neither a text nor a quota error; the
\* model allows MaxFaults of them per invocation. sheet records what reading
\* the file gave (see SheetOf). lastResponse is the text field of the latest
\* answer: <<t>> for a response carrying the text t, <<>> otherwise.
IdleRun ==
  [pc |-> "idle", sheet |-> "unread", textsToTranslate |-> <<>>, i |-> 0,
   batch |-> <<>>, results |-> <<>>, j |-> 0, translatedData |-> <<>>,
   elapsed |-> 0, faults |-> 0,
   calls |-> <<>>, answers |-> <<>>, checkpoints |-> <<>>,
   lastResponse |-> <<>>]

\* the invocation in slot s together with the component state it writes
St(s) ==
  [r |-> run[s], loading |-> loading, data |-> data, error |-> error,
   progress |-> progress]

Active(s) == run[s].pc \in {"reading", "awaitPost", "awaitDelay"}

-----------------------------------------------------------------------------
(* translateBatch and the loop of handleFileUpload, lines 83-152 *)

\* line 87 up to the await of line 46: the request for batch[j] is sent
issueCall(st) ==
  [st EXCEPT !.r.pc = "awaitPost",
             !.r.elapsed = 0,
             !.r.calls = Append(@, [item |-> st.r.i + st.r.j,
                                    text |-> st.r.batch[st.r.j],
                                    gap |-> st.r.elapsed])]

finallyBlockKeepsLoading(st) ==
  [st EXCEPT !.progress = <<100, 1>>, !.r.pc = "done"]

finallyBlockKeepsProgress(st) ==
  [st EXCEPT !.loading = FALSE, !.r.pc = "done"]

\* lines 148-151
finallyBlock(st) ==
  [st EXCEPT !.loading = FALSE, !.progress = <<100, 1>>, !.r.pc = "done"]

\* lines 142-151
afterLoop(st) ==
  finallyBlock(IF Len(st.r.translatedData) > 0
               THEN [st EXCEPT !.data = st.r.translatedData]
               ELSE st)

parseFailureSilent(st) == finallyBlock(st)

\* lines 145-151
parseFailure(st) ==
  finallyBlock([st EXCEPT !.error = FileErrorMessage])

\* lines 121-124 and 83-87: the loop condition, the slice, and the start of
\* translateBatch on it
loopHead(st) ==
  IF st.r.i < Len(st.r.textsToTranslate)
  THEN issueCall([st EXCEPT
         !.r.batch = Slice(st.r.textsToTranslate, st.r.i, st.r.i + BATCH_SIZE),
         !.r.results = <<>>,
         !.r.j = 1])
  ELSE afterLoop(st)

\* the forEach of lines 125-130
pairsOf(batch, translatedBatch) ==
  [k \in 1 .. Len(translatedBatch) |->
     [original |-> IF k <= Len(batch) THEN batch[k] ELSE 0,
      translated |-> translatedBatch[k]]]

\* translatedData.push for every pair of the batch, lines 125-130
accumulateUnshift(translatedData, batch, translatedBatch) ==
  pairsOf(batch, translatedBatch) \o translatedData

accumulate(translatedData, batch, translatedBatch) ==
  translatedData \o pairsOf(batch, translatedBatch)

percentNoCap(i, total) == <<(i + BATCH_SIZE) * 100, total>>

\* line 131
percent(i, total) ==
  IF (i + BATCH_SIZE) * 100 >= 100 * total
  THEN <<100, 1>>
  ELSE <<(i + BATCH_SIZE) * 100, total>>

\* lines 98 and 125-133, then i += BATCH_SIZE and the loop condition
batchDone(st) ==
  LET td == accumulate(st.r.translatedData, st.r.batch, st.r.results)
      p  == percent(st.r.i, Len(st.r.textsToTranslate))
  IN loopHead([st EXCEPT
       !.r.translatedData = td,
       !.progress = p,
       !.data = td,
       !.r.checkpoints = Append(@, [progress |-> p, shown |-> td,
                                    attempted |-> Len(st.r.calls)]),
       !.r.i = @ + BATCH_SIZE])

batchThrewKeepsPartial(st, result) ==
  IF IsQuotaError(result)
  THEN afterLoop([st EXCEPT
         !.error = result.message,
         !.r.translatedData =
            accumulate(@, SubSeq(st.r.batch, 1, Len(st.r.results)), st.r.results)])
  ELSE loopHead([st EXCEPT !.r.i = @ + BATCH_SIZE])

\* lines 134-139: translateBatch threw
batchThrew(st, result) ==
  IF IsQuotaError(result)
  THEN afterLoop([st EXCEPT !.error = result.message])
  ELSE loopHead([st EXCEPT !.r.i = @ + BATCH_SIZE])

\* the for-of of line 85 moves to the next text or leaves the loop
nextText(st) ==
  IF st.r.j < Len(st.r.batch)
  THEN issueCall([st EXCEPT !.r.j = @ + 1])
  ELSE batchDone(st)

\* lines 88-89: translateText returned
translateBatchTry(st, result) ==
  [st EXCEPT !.r.results = Append(@, result.text), !.r.pc = "awaitDelay"]

translateBatchCatchOmit(st, result) ==
  IF IsQuotaError(result)
  THEN batchThrew(st, result)
  ELSE nextText(st)

translateBatchCatchSwallow(st, result) ==
  nextText([st EXCEPT !.r.results = Append(@, DEBUG_TRANSLATED_PERSIAN)])

translateBatchCatchText(st, result) ==
  IF IsQuotaError(result)
  THEN batchThrew(st, result)
  ELSE nextText([st EXCEPT !.r.results = Append(@, "")])

translateBatchCatchRetry(st, result) ==
  IF IsQuotaError(result)
  THEN batchThrew(st, result)
  ELSE issueCall(st)

\* lines 90-96: translateText threw
translateBatchCatch(st, result) ==
  IF IsQuotaError(result)
  THEN batchThrew(st, result)
  ELSE nextText([st EXCEPT !.r.results = Append(@, DEBUG_TRANSLATED_PERSIAN)])

\* what reading the file gave, as recorded in sheet: "unreadable" when lines
\* 112-115 throw, "empty" for a sheet without rows, "blank" for rows of which
\* none has a value in column zero, "texts" otherwise
SheetOf(parsed) ==
  IF ~parsed.readable THEN "unreadable"
  ELSE IF parsed.rows = <<>> THEN "empty"
  ELSE IF \A r \in 1 .. Len(parsed.rows) : parsed.rows[r] = 0 THEN "blank"
  ELSE "texts"

\* what the endpoint answered, as recorded in answers: "ok" for a response
\* with a text, "quota" for HTTP 429 or an error message containing "quota",
\* "fail" for every other answer
AnswerOf(outcome) ==
  IF outcome.type = "response"
  THEN IF HasText(outcome) THEN "ok" ELSE "fail"
  ELSE IF outcome.status = 429 \/ Includes(outcome.serverMessage, "quota")
       THEN "quota"
       ELSE "fail"

-----------------------------------------------------------------------------
(* Actions *)

UploadAlwaysEnabled == TRUE

\* line 200: the upload button is rendered disabled while loading
UploadEnabled == ~loading

ExportEnabledWhileLoading == Len(data) > 0

\* lines 211-221: the download button
ExportEnabled == Len(data) > 0 /\ ~loading

Commit(s, st) ==
  /\ run' = [run EXCEPT ![s] = st.r]
  /\ loading' = st.loading
  /\ data' = st.data
  /\ error' = st.error
  /\ progress' = st.progress

handleFileUploadKeepsData(s, files) ==
  /\ UploadEnabled
  /\ ~Active(s)
  /\ \A t \in Slots : t < s => Active(t)
  /\ IF files = <<>>
     THEN UNCHANGED vars
     ELSE /\ loading' = TRUE
          /\ error' = <<>>
          /\ progress' = <<0, 1>>
          /\ data' = data
          /\ originalFileName' = files[1].name
          /\ run' = [run EXCEPT ![s] = [IdleRun EXCEPT !.pc = "reading"]]

\* lines 101-112: the change event of the file input, up to the first await;
\* files is event.target.files, empty or holding one file
handleFileUpload(s, files) ==
  /\ UploadEnabled
  /\ ~Active(s)
  /\ \A t \in Slots : t < s => Active(t)
  /\ IF files = <<>>
     THEN UNCHANGED vars
     ELSE /\ loading' = TRUE
          /\ error' = <<>>
          /\ progress' = <<0, 1>>
          /\ data' = <<>>
          /\ originalFileName' = files[1].name
          /\ run' = [run EXCEPT ![s] = [IdleRun EXCEPT !.pc = "reading"]]

\* lines 112-120: the file has been read; parsing it throws or gives the rows
ReadDone(s, parsed) ==
  /\ run[s].pc = "reading"
  /\ UNCHANGED originalFileName
  /\ IF ~parsed.readable
     THEN Commit(s, parseFailure([St(s) EXCEPT !.r.sheet = SheetOf(parsed)]))
     ELSE Commit(s, loopHead([St(s) EXCEPT
            !.r.sheet = SheetOf(parsed),
            !.r.textsToTranslate = FilterTruthy(parsed.rows),
            !.r.i = 0,
            !.r.translatedData = <<>>]))

\* the request of line 46 completes with outcome; lines 62-96 follow
PostDone(s, outcome) ==
  LET result == translateText(outcome)
      fault  == AnswerOf(outcome) = "fail"
      st     == [St(s) EXCEPT
                   !.r.answers = Append(@, AnswerOf(outcome)),
                   !.r.lastResponse = outcome.text,
                   !.r.faults = IF fault THEN @ + 1 ELSE @]
  IN /\ run[s].pc = "awaitPost"
     /\ fault => run[s].faults < MaxFaults
     /\ UNCHANGED originalFileName
     /\ IF result.threw
        THEN Commit(s, translateBatchCatch(st, result))
        ELSE Commit(s, translateBatchTry(st, result))

\* the timer of line 89 fires
DelayDone(s) ==
  /\ run[s].pc = "awaitDelay"
  /\ UNCHANGED originalFileName
  /\ Commit(s, nextText([St(s) EXCEPT !.r.elapsed = RATE_LIMIT_DELAY]))

handleExportClears(writes) ==
  /\ ExportEnabled
  /\ error' = IF writes THEN error ELSE ExportErrorMessage
  /\ data' = IF writes THEN data ELSE <<>>
  /\ UNCHANGED <<loading, originalFileName, progress, run>>

\* lines 154-186; writes says whether the xlsx calls succeed or throw
handleExport(writes) ==
  /\ ExportEnabled
  /\ error' = IF writes THEN error ELSE ExportErrorMessage
  /\ UNCHANGED <<loading, data, originalFileName, progress, run>>

\* lines 254-266: the snackbar is closed
CloseSnackbar ==
  /\ error # <<>>
  /\ error' = <<>>
  /\ UNCHANGED <<loading, data, originalFileName, progress, run>>

Init ==
  /\ loading = FALSE
  /\ data = <<>>
  /\ error = <<>>
  /\ originalFileName = ""
  /\ progress = <<0, 1>>
  /\ run = [s \in Slots |-> IdleRun]

Next ==
  \/ \E s \in Slots, files \in FileLists : handleFileUpload(s, files)
  \/ \E s \in Slots, parsed \in Parsed : ReadDone(s, parsed)
  \/ \E s \in Slots, o \in Outcomes : PostDone(s, o)
  \/ \E s \in Slots : DelayDone(s)
  \/ \E w \in BOOLEAN : handleExport(w)
  \/ CloseSnackbar

Spec == Init /\ [][Next]_vars

\* the sheets of the specification with fairness
ParsedLive == { parsed \in Parsed : Len(parsed.rows) <= LiveRows }

NextLive ==
  \/ \E s \in Slots, files \in FileLists : handleFileUpload(s, files)
  \/ \E s \in Slots, parsed \in ParsedLive : ReadDone(s, parsed)
  \/ \E s \in Slots, o \in Outcomes : PostDone(s, o)
  \/ \E s \in Slots : DelayDone(s)
  \/ \E w \in BOOLEAN : handleExport(w)
  \/ CloseSnackbar

\* the invocation in slot s is resumed from the await it is suspended at
Resume(s) ==
  \/ \E parsed \in ParsedLive : ReadDone(s, parsed)
  \/ \E o \in Outcomes : PostDone(s, o)
  \/ DelayDone(s)

\* the browser completes every read, every request and every timer, so an
\* invocation suspended at an await is eventually resumed
FairSpec ==
  /\ Init /\ [][NextLive]_vars
  /\ \A s \in Slots : WF_vars(Resume(s))

TypeOK ==
  /\ loading \in BOOLEAN
  /\ \A s \in Slots : run[s].pc \in {"idle", "reading", "awaitPost", "awaitDelay", "done"}

-----------------------------------------------------------------------------
(* Properties *)

Range(seq) == { seq[k] : k \in 1 .. Len(seq) }

Started(s) == run[s].pc # "idle"

Done(s) == run[s].pc = "done"

NoQuota(s) == "quota" \notin Range(run[s].answers)

Total(s) == Len(run[s].textsToTranslate)

\* C1: a run that ended without a quota error holds exactly as many pairs as
\* there are input strings.
C1_LengthEqualsInput ==
  \A s \in Slots :
    (Done(s) /\ NoQuota(s)) => Len(data) = Total(s)

C1_Witness ==
  \E s \in Slots :
    /\ Done(s) /\ NoQuota(s)
    /\ "fail" \in Range(run[s].answers)
    /\ Total(s) > BATCH_SIZE
    /\ Len(data) = Total(s)

\* C2: in every state of a run the accumulated pairs, the pairs shown and the
\* pairs of every checkpoint are a prefix of the input in input order: the
\* pair at index k has the k-th input string as its original.
IsInputPrefix(pairs, texts) ==
  /\ Len(pairs) <= Len(texts)
  /\ \A k \in 1 .. Len(pairs) : pairs[k].original = texts[k]

C2_OrderPreservingPrefix ==
  \A s \in Slots :
    Started(s) =>
      /\ IsInputPrefix(run[s].translatedData, run[s].textsToTranslate)
      /\ IsInputPrefix(data, run[s].textsToTranslate)
      /\ \A c \in 1 .. Len(run[s].checkpoints) :
           IsInputPrefix(run[s].checkpoints[c].shown, run[s].textsToTranslate)

C2_Witness ==
  \E s \in Slots :
    /\ Done(s) /\ ~NoQuota(s)
    /\ Len(data) = 2 * BATCH_SIZE
    /\ Total(s) > 2 * BATCH_SIZE
    /\ IsInputPrefix(data, run[s].textsToTranslate)

\* C3: when the call for the k-th item fails with a quota error, the run
\* ends with exactly the k-1 pairs of the items before it and with the quota
\* message as the error.
C3_QuotaKeepsEarlierPairs ==
  [][\A s \in Slots :
       (run[s].pc = "awaitPost" /\ run'[s].pc = "done"
        /\ "quota" \in Range(run'[s].answers))
       => /\ Len(data') = Len(run'[s].answers) - 1
          /\ error' = QuotaMessage]_vars

\* C4: once a call of a run has failed with a quota error the run is over
\* and the failed call is the last one it issued.
C4_NoCallAfterQuota ==
  \A s \in Slots :
    \A k \in 1 .. Len(run[s].answers) :
      run[s].answers[k] = "quota" =>
        /\ Done(s)
        /\ k = Len(run[s].answers)
        /\ k = Len(run[s].calls)

C4_Witness ==
  \E s \in Slots :
    /\ Done(s)
    /\ Len(run[s].answers) = 3
    /\ run[s].answers[3] = "quota"
    /\ Total(s) > BATCH_SIZE
    /\ Len(run[s].calls) = 3

C6_ProgressMonotoneAndFinal ==
  /\ [](\A s \in Slots :
          /\ Done(s) => progress = <<100, 1>>
          /\ \A c \in 2 .. Len(run[s].checkpoints) :
               RatLeq(run[s].checkpoints[c - 1].progress,
                      run[s].checkpoints[c].progress))
  /\ [][\A s \in Slots :
          (run[s].pc \in {"awaitPost", "awaitDelay", "reading"}
           /\ run'[s].pc # "reading")
          => RatLeq(progress, progress')]_vars

C6_Witness ==
  \E s \in Slots :
    /\ Done(s) /\ ~NoQuota(s)
    /\ Len(run[s].checkpoints) = 1
    /\ ~RatEq(run[s].checkpoints[1].progress, <<100, 1>>)
    /\ progress = <<100, 1>>

\* C7: every checkpoint carries the percentage of the items attempted so
\* far and the accumulated pairs, one per attempted item; 25 rows give the
\* batches 10, 10, 5 and the progress values 40, 80, 100.
C7_CheckpointProgress ==
  \A s \in Slots :
    /\ \A c \in 1 .. Len(run[s].checkpoints) :
         LET cp == run[s].checkpoints[c]
         IN /\ RatEq(cp.progress, <<cp.attempted * 100, Total(s)>>)
            /\ RatLeq(cp.progress, <<100, 1>>)
            /\ Len(cp.shown) = cp.attempted
            /\ cp.attempted = Min(c * BATCH_SIZE, Total(s))
            /\ cp.shown = SubSeq(run[s].translatedData, 1, cp.attempted)
    /\ (Done(s) /\ NoQuota(s) /\ Total(s) = 25) =>
         /\ Len(run[s].checkpoints) = 3
         /\ [c \in 1 .. 3 |-> run[s].checkpoints[c].attempted] = <<10, 20, 25>>
         /\ RatEq(run[s].checkpoints[1].progress, <<40, 1>>)
         /\ RatEq(run[s].checkpoints[2].progress, <<80, 1>>)
         /\ RatEq(run[s].checkpoints[3].progress, <<100, 1>>)

C7_Witness ==
  \E s \in Slots :
    /\ Done(s) /\ NoQuota(s) /\ Total(s) = 25
    /\ Len(run[s].checkpoints) = 3
    /\ RatEq(run[s].checkpoints[1].progress, <<40, 1>>)
    /\ Len(run[s].checkpoints[3].shown) = 25

\* C8: before every call but the first of a run, the delay has elapsed in
\* full since the call before it.
C8_DelayBetweenCalls ==
  \A s \in Slots :
    \A k \in 2 .. Len(run[s].calls) :
      run[s].calls[k].gap = RATE_LIMIT_DELAY

\* C9: at most one invocation of handleFileUpload is in progress and at most
\* one request is outstanding, and loading is true while one is.
Outstanding(s) == Len(run[s].calls) - Len(run[s].answers)

C9_OneRequestAtATime ==
  /\ Cardinality({ s \in Slots : Active(s) }) <= 1
  /\ Cardinality({ s \in Slots : Outstanding(s) > 0 }) <= 1
  /\ \A s \in Slots :
       /\ Outstanding(s) \in {0, 1}
       /\ Outstanding(s) = 1 <=> run[s].pc = "awaitPost"
       /\ Active(s) => loading

C9_Witness ==
  \E s \in Slots :
    /\ loading
    /\ run[s].pc = "awaitPost"
    /\ Len(run[s].answers) > BATCH_SIZE
    /\ Outstanding(s) = 1

\* C10: the k-th call of a run is the call for the k-th input string, so no
\* item is passed twice, and a run that ended without a quota error has
\* called once for every input string.
C10_NoRetry ==
  \A s \in Slots :
    /\ Len(run[s].calls) <= Total(s)
    /\ \A k \in 1 .. Len(run[s].calls) :
         /\ run[s].calls[k].item = k
         /\ run[s].calls[k].text = run[s].textsToTranslate[k]
    /\ (Done(s) /\ NoQuota(s)) => Len(run[s].calls) = Total(s)

C10_Witness ==
  \E s \in Slots :
    /\ Done(s) /\ NoQuota(s)
    /\ Total(s) > 2 * BATCH_SIZE
    /\ Len(run[s].calls) = Total(s)
    /\ Cardinality({ k \in 1 .. Len(run[s].answers) : run[s].answers[k] = "fail" }) = 2

\* C11: a file that parses into rows of which none has a value in column
\* zero makes the run end at once, without a request and without a pair.
C11_BlankSheetNoCalls ==
  \A s \in Slots :
    run[s].sheet = "blank" =>
      /\ Done(s)
      /\ run[s].textsToTranslate = <<>>
      /\ run[s].calls = <<>>
      /\ run[s].translatedData = <<>>
      /\ data = <<>>

C11_Witness ==
  \E s \in Slots :
    /\ run[s].sheet = "blank"
    /\ Done(s)
    /\ run[s].calls = <<>>
    /\ data = <<>>
    /\ ~loading

\* C12: when reading or parsing the file fails the run ends in that step
\* with the file-processing message as the error, and it has issued no
\* request and holds no pair.
C12_ParseFailureAborts ==
  /\ [](\A s \in Slots :
          run[s].sheet = "unreadable" =>
            /\ Done(s)
            /\ run[s].calls = <<>>
            /\ data = <<>>)
  /\ [][\A s \in Slots :
          (run[s].pc = "reading" /\ run'[s].sheet = "unreadable")
          => /\ error' = FileErrorMessage
             /\ run'[s].pc = "done"]_vars

C12_Witness ==
  \E s \in Slots :
    /\ run[s].sheet = "unreadable"
    /\ Done(s)
    /\ error = FileErrorMessage
    /\ data = <<>>

\* C13: whenever a run is in progress, eventually no run is in progress and
\* loading is false; a run that has ended and whose file was parsed has
\* either called for every input string or failed with a quota error in its
\* last call.
AnyActive == \E s \in Slots : Active(s)

C13_RunTerminates ==
  /\ [](\A s \in Slots :
          (Done(s) /\ run[s].sheet # "unreadable") =>
            \/ NoQuota(s) /\ Len(run[s].answers) = Total(s)
            \/ /\ run[s].answers # <<>>
               /\ run[s].answers[Len(run[s].answers)] = "quota")
  /\ AnyActive ~> (~AnyActive /\ ~loading)

C13_Witness ==
  \E s \in Slots :
    /\ Done(s) /\ ~loading
    /\ Total(s) = LiveRows
    /\ Len(run[s].answers) = BATCH_SIZE + 1
    /\ run[s].answers[BATCH_SIZE + 1] = "quota"

\* C14: a step of handleExport leaves the pairs, the progress, loading, the
\* file name and every invocation as they are; it leaves the error as it is
\* when the export succeeds and sets the export message when it fails.
C14_ExportKeepsResults ==
  [][\A w \in BOOLEAN :
       handleExport(w) =>
         /\ UNCHANGED <<data, progress, loading, originalFileName, run>>
         /\ error' = (IF w THEN error ELSE ExportErrorMessage)]_vars

C14_Witness ==
  /\ error = ExportErrorMessage
  /\ ~loading
  /\ Len(data) > BATCH_SIZE
  /\ \E s \in Slots : Done(s) /\ data = run[s].translatedData

\* C15: the item whose request was answered by a response carrying the text
\* t has t as its translation, in the result of its batch or in the
\* accumulated pairs.
C15_ResponseTextIsTranslation ==
  \A s \in Slots :
    LET k == Len(run[s].answers)
    IN (k > 0 /\ run[s].lastResponse # <<>>) =>
         IF k <= Len(run[s].translatedData)
         THEN run[s].translatedData[k].translated = run[s].lastResponse[1]
         ELSE /\ k - run[s].i \in 1 .. Len(run[s].results)
              /\ run[s].results[k - run[s].i] = run[s].lastResponse[1]

\* C16: after a quota abort the pairs are those of the batches completed
\* before the failing batch, BATCH_SIZE for each, and nothing of the failing
\* batch.
QuotaAborted(s) ==
  /\ Done(s)
  /\ run[s].answers # <<>>
  /\ run[s].answers[Len(run[s].answers)] = "quota"

C16_QuotaKeepsCompleteBatches ==
  \A s \in Slots :
    QuotaAborted(s) =>
      LET complete == (Len(run[s].answers) - 1) \div BATCH_SIZE
      IN /\ Len(data) = complete * BATCH_SIZE
         /\ data = run[s].translatedData
         /\ Len(run[s].checkpoints) = complete
         /\ run[s].i = complete * BATCH_SIZE

C16_Witness ==
  \E s \in Slots :
    /\ QuotaAborted(s)
    /\ Len(run[s].answers) = BATCH_SIZE + 3
    /\ run[s].results = <<"tr", "tr">>
    /\ Len(data) = BATCH_SIZE

\* C17: the step that starts a run empties the pairs and the error and sets
\* progress to 0, with no request issued; from then on the pairs shown are
\* pairs accumulated by that run; an upload event without a file changes
\* nothing.
C17_RunStartsClean ==
  /\ [](\A s \in Slots :
          Started(s) =>
            /\ Len(data) <= Len(run[s].translatedData)
            /\ data = SubSeq(run[s].translatedData, 1, Len(data))
            /\ run[s].pc = "reading" =>
                 /\ data = <<>> /\ error = <<>> /\ progress = <<0, 1>>
                 /\ run[s].calls = <<>>)
  /\ [][\A s \in Slots : handleFileUpload(s, <<>>) => UNCHANGED vars]_vars

C17_Witness ==
  \E s \in Slots :
    /\ run[s].pc = "reading"
    /\ loading
    /\ data = <<>> /\ error = <<>> /\ progress = <<0, 1>>
    /\ originalFileName = "book.xlsx"

\* C18: loading is true while an invocation waits for the file, a request or
\* a delay and false once none does; while loading is true neither button is
\* enabled, no run starts and no export happens.
C18_LoadingGuards ==
  /\ [](/\ \A s \in Slots : Active(s) => loading
        /\ ~AnyActive => ~loading
        /\ loading => (~UploadEnabled /\ ~ExportEnabled))
  /\ [][loading =>
          /\ \A s \in Slots : run'[s].pc = "reading" => run[s].pc = "reading"
          /\ error' = ExportErrorMessage => error = ExportErrorMessage]_vars

C18_Witness ==
  \E s \in Slots :
    /\ run[s].pc = "awaitDelay"
    /\ loading
    /\ Len(data) = BATCH_SIZE
    /\ ~ExportEnabled

====
